---- MODULE Spec2Model ----
(***************************************************************************)
(* A model of python/pyspark/rdd.py: the collector (collect, take and the  *)
(* staging file they read results through), the fusion of narrow           *)
(* transformations (PipelinedRDD), the hash shuffle (partitionBy,          *)
(* combineByKey) and reduce.                                               *)
(*                                                                         *)
(* Each part has its own variables and its own specification; a            *)
(* specification keeps the variables of the other parts at their initial   *)
(* values.                                                                 *)
(***************************************************************************)
EXTENDS Integers, Sequences, FiniteSets, TLC

\* ---------------------------------------------------------------- bounds
\* The largest number of partitions of a dataset.
MaxParts == 3
\* The largest number of elements of one partition.
MaxPartLen == 2
\* The largest argument of take().
MaxNum == 3

\* --------------------------------------------------------------- helpers
Min(a, b) == IF a <= b THEN a ELSE b

Range(s) == {s[i] : i \in 1..Len(s)}

\* A dict is a function from its keys. The dict d with d[k] = c.
Put(d, k, c) == [x \in (DOMAIN d) \cup {k} |-> IF x = k THEN c ELSE d[x]]

EmptyDict == [x \in {} |-> 0]

RECURSIVE Flatten(_)
Flatten(ss) == IF ss = <<>> THEN <<>> ELSE Head(ss) \o Flatten(Tail(ss))

RECURSIVE SumLen(_)
SumLen(ss) == IF ss = <<>> THEN 0 ELSE Len(Head(ss)) + SumLen(Tail(ss))

\* ================================================================ collector
VARIABLES
    parts,      \* the dataset: a sequence of partitions, each a sequence of elements
    op,         \* the action running: "none", "collect" or "take"
    num,        \* take's argument
    pc,         \* the position of the call
    partition,  \* take's loop variable (0-based, as in the code)
    items,      \* the elements delivered to the caller so far
    iterator,   \* the backend's result handed to _collect_iterator_through_file
    content,    \* what the current staging file holds
    readPos,    \* how many elements of the staging file were read back
    curFile,    \* the current staging file (0: none)
    created,    \* every staging file made so far
    existing,   \* the staging files that exist on disk
    atexitReg,  \* the files whose clean_up_file is registered with atexit
    result,     \* the value the call returned
    error,      \* the exception the call ended with ("none": none)
    scanned     \* the partitions take asked the backend for, in order

cvars == <<parts, op, num, pc, partition, items, iterator, content, readPos,
           curFile, created, existing, atexitReg, result, error, scanned>>

\* The datasets: element i (in collect order) is the number i, so that every
\* element is told from every other.
RECURSIVE Fill(_, _)
Fill(sizes, from) ==
    IF sizes = <<>> THEN <<>>
    ELSE <<[i \in 1..Head(sizes) |-> from + i]>> \o Fill(Tail(sizes), from + Head(sizes))

Datasets ==
    UNION {{Fill(sizes, 0) : sizes \in [1..n -> 0..MaxPartLen]} : n \in 0..MaxParts}

\* self._jrdd.splits().size()
NumSplits == Len(parts)

\* self._jrdd.collect(): every partition's elements, in partition-index order.
JavaCollect == Flatten(parts)

\* self.ctx._takePartition(self._jrdd.rdd(), partition): the elements of one
\* partition (0-based index).
TakePartition(p) == parts[p + 1]

CInit ==
    /\ parts \in Datasets
    /\ op = "none" /\ num = 0 /\ pc = "idle" /\ partition = 0
    /\ items = <<>> /\ iterator = <<>> /\ content = <<>> /\ readPos = 0
    /\ curFile = 0 /\ created = {} /\ existing = {} /\ atexitReg = {}
    /\ result = <<>> /\ error = "none" /\ scanned = <<>>

\* items[:num] for num >= 0.
TakeSliceAll(its, n) == its

TakeSlice(its, n) == SubSeq(its, 1, Min(n, Len(its)))

\* take's test after a partition was read: len(items) >= num.
TakeEnough(its, n) == Len(its) >= n

\* collect(): line 219 asks the backend for everything, line 220 starts to
\* drain the generator.
Collect ==
    /\ pc = "idle"
    /\ op' = "collect"
    /\ iterator' = JavaCollect
    /\ pc' = "gen"
    /\ UNCHANGED <<parts, num, partition, items, content, readPos, curFile,
                   created, existing, atexitReg, result, error, scanned>>

\* take(num): items = [], and the first turn of the loop over the partitions
\* (none when the dataset has no partition: return items[:num]).
Take(n) ==
    /\ pc = "idle"
    /\ op' = "take"
    /\ num' = n
    /\ items' = <<>>
    /\ IF NumSplits = 0
       THEN /\ pc' = "returned"
            /\ result' = TakeSlice(<<>>, n)
            /\ UNCHANGED <<partition, iterator, scanned>>
       ELSE /\ partition' = 0
            /\ iterator' = TakePartition(0)
            /\ scanned' = <<0>>
            /\ pc' = "gen"
            /\ UNCHANGED result
    /\ UNCHANGED <<parts, content, readPos, curFile, created, existing,
                   atexitReg, error>>

\* tempFile = NamedTemporaryFile(delete=False); tempFile.close()
CreateTempFile ==
    /\ pc = "gen"
    /\ curFile' = Cardinality(created) + 1
    /\ created' = created \cup {curFile'}
    /\ existing' = existing \cup {curFile'}
    /\ content' = <<>>
    /\ readPos' = 0
    /\ pc' = "created"
    /\ UNCHANGED <<parts, op, num, partition, items, iterator, atexitReg,
                   result, error, scanned>>

\* atexit.register(clean_up_file)
RegisterCleanUp ==
    /\ pc = "created"
    /\ atexitReg' = atexitReg \cup {curFile}
    /\ pc' = "registered"
    /\ UNCHANGED <<parts, op, num, partition, items, iterator, content, readPos,
                   curFile, created, existing, result, error, scanned>>

\* self.ctx._writeIteratorToPickleFile(iterator, tempFile.name): the backend
\* writes the whole result, or fails and the exception leaves the call.
WriteFile ==
    /\ pc = "registered"
    /\ \/ /\ content' = iterator
          /\ pc' = "reading"
          /\ UNCHANGED error
       \/ /\ pc' = "raised"
          /\ error' = "write"
          /\ UNCHANGED content
    /\ UNCHANGED <<parts, op, num, partition, items, iterator, readPos, curFile,
                   created, existing, atexitReg, result, scanned>>

\* One turn of "for item in read_from_pickle_file(tempFile): yield item"
\* (lines 234-236): the next element is read and handed to the consumer
\* (list() in collect, items.extend() in take), or the read fails and the
\* exception leaves the call.
ReadItem ==
    /\ pc = "reading"
    /\ readPos < Len(content)
    /\ \/ /\ readPos' = readPos + 1
          /\ items' = Append(items, content[readPos + 1])
          /\ UNCHANGED <<pc, error>>
       \/ /\ pc' = "raised"
          /\ error' = "read"
          /\ UNCHANGED <<readPos, items>>
    /\ UNCHANGED <<parts, op, num, partition, iterator, content, curFile,
                   created, existing, atexitReg, result, scanned>>

\* The read-back is exhausted: the with block closes the file and line 237 is
\* next.
ReadEnd ==
    /\ pc = "reading"
    /\ readPos = Len(content)
    /\ pc' = "unlink"
    /\ UNCHANGED <<parts, op, num, partition, items, iterator, content, readPos,
                   curFile, created, existing, atexitReg, result, error, scanned>>

\* What the consumer does once the generator is exhausted. collect returns
\* the list. take tests len(items) >= num: break and return items[:num], or
\* go on with the next partition, or return items[:num] after the last one.
AfterGenerator ==
    IF op = "collect"
    THEN /\ pc' = "returned"
         /\ result' = items
         /\ UNCHANGED <<partition, iterator, scanned>>
    ELSE IF TakeEnough(items, num) \/ partition + 1 >= NumSplits
         THEN /\ pc' = "returned"
              /\ result' = TakeSlice(items, num)
              /\ UNCHANGED <<partition, iterator, scanned>>
         ELSE /\ partition' = partition + 1
              /\ iterator' = TakePartition(partition + 1)
              /\ scanned' = Append(scanned, partition + 1)
              /\ pc' = "gen"
              /\ UNCHANGED result

\* os.unlink(tempFile.name), line 237, outside any try: the file is removed
\* and the generator ends, or the removal fails and the OSError leaves the
\* generator and the call.
Unlink ==
    /\ pc = "unlink"
    /\ \/ /\ existing' = existing \ {curFile}
          /\ AfterGenerator
          /\ UNCHANGED error
       \/ /\ pc' = "raised"
          /\ error' = "unlink"
          /\ UNCHANGED <<existing, partition, iterator, scanned, result>>
    /\ UNCHANGED <<parts, op, num, items, content, readPos, curFile, created,
                   atexitReg>>

\* The interpreter exits after the call: every registered clean_up_file runs
\* "try: os.unlink(tempFile.name) / except: pass". Each removal works or
\* fails (the file is gone already, or the removal is refused); a failure is
\* swallowed.
ProcessExit ==
    /\ pc \in {"returned", "raised"}
    /\ \E refused \in SUBSET (existing \cap atexitReg) :
          existing' = (existing \ atexitReg) \cup refused
    /\ pc' = IF pc = "returned" THEN "exited" ELSE "exited_raised"
    /\ UNCHANGED <<parts, op, num, partition, items, iterator, content, readPos,
                   curFile, created, atexitReg, result, error, scanned>>

\* The call is over: it returned or raised, and the interpreter may have
\* exited since.
Finished == pc \in {"returned", "raised", "exited", "exited_raised"}

Raised == pc \in {"raised", "exited_raised"}

\* C1: whenever a collect() or take() call that created a staging file has
\* finished, normally or by an exception, no staging file exists any more.
C1_NoStagingFileAfterCall ==
    (Finished /\ created # {}) => existing = {}

\* C2: take(n) asks the backend for the partitions 0, 1, 2, ... in that order,
\* and for partition p only if the partitions before p hold fewer than n
\* elements together.
C2_ScansOnlyNecessary ==
    op = "take" =>
        \A i \in 1..Len(scanned) :
            /\ scanned[i] = i - 1
            /\ SumLen(SubSeq(parts, 1, scanned[i])) < num

\* C3: take(n) returns the first n elements of collect() when n is at most the
\* number of elements, and all of collect() when n is at least that number.
C3_TakeIsPrefixOfCollect ==
    (op = "take" /\ pc \in {"returned", "exited"}) =>
        /\ num <= Len(JavaCollect) => result = SubSeq(JavaCollect, 1, num)
        /\ num >= Len(JavaCollect) => result = JavaCollect

\* A take that needed two partitions and left elements of the dataset out.
C3_Witness ==
    /\ op = "take" /\ pc = "returned"
    /\ Len(scanned) >= 2
    /\ 0 < num /\ num < Len(JavaCollect)
    /\ Len(items) > num

\* C10: a removal of the staging file that fails is swallowed: a call ends
\* with an exception only because the write into the staging file or the
\* read-back failed, never because the removal failed after every element
\* was delivered.
C10_RemovalFailureSwallowed ==
    Raised => error \in {"write", "read"}

\* ================================================================= fusion
VARIABLES
    nodes,   \* the RDD objects made so far (RDD and PipelinedRDD), by index
    jrdds    \* the backend's RDDs made so far: the one node n holds or built
             \* is named n

fvars == <<nodes, jrdds>>

\* The largest number of RDD objects.
MaxNodes == 4

\* The source dataset: RDD(jrdd, ctx) over a backend RDD that no Python
\* function produced.
SourceJrdd ==
    [kind |-> "source", parent |-> 0, func |-> <<>>,
     preservesPartitioning |-> FALSE, cached |-> FALSE]

\* RDD.__init__(jrdd, ctx): _jrdd = jrdd, is_cached = False. prev (not a field
\* of the code's RDD) records the node the backend RDD was derived from.
PlainRDD(jrdd, from) ==
    [pipelined |-> FALSE, prev |-> from, func |-> <<>>,
     preservesPartitioning |-> FALSE, prev_jrdd |-> 0, is_cached |-> FALSE,
     jrdd_val |-> jrdd, asserted |-> FALSE, builds |-> 0]

FInit ==
    /\ nodes = <<PlainRDD(1, 0)>>
    /\ jrdds = Put(EmptyDict, 1, SourceJrdd)

\* PythonRDD(self._prev_jrdd.rdd(), pipe_command, env,
\* self.preservesPartitioning, ...) of node nd (lines 693-695).
PythonRDD(nd) ==
    [kind |-> "python", parent |-> nd.prev_jrdd, func |-> nd.func,
     preservesPartitioning |-> nd.preservesPartitioning, cached |-> FALSE]

\* The _jrdd property of node n, evaluated in (nds, jds): the nodes and the
\* backend RDDs afterwards. An RDD holds its _jrdd; a PipelinedRDD returns
\* _jrdd_val when it is set, and else builds the PythonRDD and keeps it
\* (builds counts the PythonRDDs the node built).
GetJrdd(nds, jds, n) ==
    IF ~nds[n].pipelined \/ nds[n].jrdd_val # 0
    THEN [nodes |-> nds, jrdds |-> jds, jrdd |-> nds[n].jrdd_val]
    ELSE [nodes |-> [nds EXCEPT ![n].jrdd_val = n,
                                ![n].builds = nds[n].builds + 1],
          jrdds |-> Put(jds, n, PythonRDD(nds[n])),
          jrdd |-> n]

\* The fields of a new PipelinedRDD (lines 653-670).
Pipelined(prev, func, pp, prev_jrdd, asserted) ==
    [pipelined |-> TRUE, prev |-> prev, func |-> func,
     preservesPartitioning |-> pp, prev_jrdd |-> prev_jrdd,
     is_cached |-> FALSE, jrdd_val |-> 0, asserted |-> asserted, builds |-> 0]

\* PipelinedRDD.__init__(prev, func, preservesPartitioning), evaluated in
\* (nds, jds); the new node gets the next index, and its function is named by
\* that index. On an uncached PipelinedRDD the new function is composed with
\* prev.func and prev's upstream is kept; otherwise the node starts a new
\* function on prev._jrdd.
NewPipelinedNoFusion(nds, jds, prev, pp) ==
    LET id == Len(nds) + 1
        g  == GetJrdd(nds, jds, prev)
    IN  [nodes |-> Append(g.nodes, Pipelined(prev, <<id>>, pp, g.jrdd, pp)),
         jrdds |-> g.jrdds]

\* PipelinedRDD.__init__ keeping only the new call's flag on fusion.
NewPipelinedLastFlag(nds, jds, prev, pp) ==
    LET id == Len(nds) + 1
    IN  IF nds[prev].pipelined /\ ~nds[prev].is_cached
        THEN [nodes |-> Append(nds,
                    Pipelined(prev, Append(nds[prev].func, id), pp,
                              nds[prev].prev_jrdd, pp)),
              jrdds |-> jds]
        ELSE LET g == GetJrdd(nds, jds, prev)
             IN  [nodes |-> Append(g.nodes, Pipelined(prev, <<id>>, pp, g.jrdd, pp)),
                  jrdds |-> g.jrdds]

NewPipelined(nds, jds, prev, pp) ==
    LET id == Len(nds) + 1
    IN  IF nds[prev].pipelined /\ ~nds[prev].is_cached
        THEN [nodes |-> Append(nds,
                    Pipelined(prev, Append(nds[prev].func, id),
                              nds[prev].preservesPartitioning /\ pp,
                              nds[prev].prev_jrdd, pp)),
              jrdds |-> jds]
        ELSE LET g == GetJrdd(nds, jds, prev)
             IN  [nodes |-> Append(g.nodes, Pipelined(prev, <<id>>, pp, g.jrdd, pp)),
                  jrdds |-> g.jrdds]

\* The nodes a caller holds: every node but the PipelinedRDD that partitionBy
\* builds for itself (keyed).
UserNodes == {n \in 1..Len(nodes) : ~(n < Len(nodes) /\ nodes[n + 1].prev = n
                                        /\ ~nodes[n + 1].pipelined)}

Derive(n, pp) ==
    /\ n \in UserNodes
    /\ Len(nodes) < MaxNodes
    /\ LET r == NewPipelined(nodes, jrdds, n, pp)
       IN  /\ nodes' = r.nodes
           /\ jrdds' = r.jrdds

\* map(f, preservesPartitioning=False)
Map(n, pp) == Derive(n, pp)

\* flatMap(f, preservesPartitioning=False): self.mapPartitions(func, pp)
FlatMap(n, pp) == Derive(n, pp)

\* mapPartitions(f, preservesPartitioning=False)
MapPartitions(n, pp) == Derive(n, pp)

\* filter(f): self.mapPartitions(func)
Filter(n) == Derive(n, FALSE)

\* mapValues(f): self.map(map_values_fn, preservesPartitioning=True)
MapValues(n) == Derive(n, TRUE)

\* flatMapValues(f): self.flatMap(flat_map_fn, preservesPartitioning=True)
FlatMapValues(n) == Derive(n, TRUE)

\* cache(): is_cached = True, then self._jrdd.cache().
Cache(n) ==
    /\ n \in UserNodes
    /\ ~nodes[n].is_cached
    /\ LET g == GetJrdd([nodes EXCEPT ![n].is_cached = TRUE], jrdds, n)
       IN  /\ nodes' = g.nodes
           /\ jrdds' = [g.jrdds EXCEPT ![g.jrdd].cached = TRUE]

\* An action on node n (collect, take, reduce, ...): it reads self._jrdd and
\* runs a job on it.
RunAction(n) ==
    /\ n \in UserNodes
    /\ LET g == GetJrdd(nodes, jrdds, n)
       IN  /\ nodes' = g.nodes
           /\ jrdds' = g.jrdds

\* partitionBy(numSplits): keyed = PipelinedRDD(self, add_shuffle_key), the
\* backend's partitionBy on keyed._jrdd, and RDD(jrdd, ctx) on the outcome.
PartitionByNode(n) ==
    /\ n \in UserNodes
    /\ Len(nodes) + 2 <= MaxNodes
    /\ LET k == NewPipelined(nodes, jrdds, n, FALSE)
           keyed == Len(k.nodes)
           g == GetJrdd(k.nodes, k.jrdds, keyed)
           shuffled == [kind |-> "shuffled", parent |-> g.jrdd, func |-> <<>>,
                        preservesPartitioning |-> FALSE, cached |-> FALSE]
       IN  /\ jrdds' = Put(g.jrdds, keyed + 1, shuffled)
           /\ nodes' = Append(g.nodes, PlainRDD(keyed + 1, keyed))

\* The backend RDDs that PythonRDD built on the way from backend RDD j up to
\* the source: the submissions a job on j runs.
RECURSIVE PyCount(_)
PyCount(j) ==
    IF j = 0 THEN 0
    ELSE (IF jrdds[j].kind = "python" THEN 1 ELSE 0) + PyCount(jrdds[j].parent)

\* The shuffle boundaries on the way from node n up to the source.
RECURSIVE Shuffles(_)
Shuffles(n) ==
    IF n = 0 THEN 0
    ELSE (IF ~nodes[n].pipelined /\ nodes[n].prev # 0 THEN 1 ELSE 0)
         + Shuffles(nodes[n].prev)

\* The nodes above node n.
RECURSIVE Ancestors(_)
Ancestors(n) ==
    IF nodes[n].prev = 0 THEN {}
    ELSE {nodes[n].prev} \cup Ancestors(nodes[n].prev)

\* The node whose output the shuffle-free segment of node n starts from: the
\* nearest RDD above n that is no PipelinedRDD.
RECURSIVE SegmentSource(_)
SegmentSource(n) ==
    IF ~nodes[nodes[n].prev].pipelined THEN nodes[n].prev
    ELSE SegmentSource(nodes[n].prev)

\* No cache() was called on a PipelinedRDD above node n.
NoCacheAbove(n) == \A a \in Ancestors(n) : nodes[a].pipelined => ~nodes[a].is_cached

\* C4: after any sequence of transformation calls and actions, a node made by
\* N narrow transformations with no cache() between them is submitted as one
\* PythonRDD built on the original upstream of its shuffle-free segment: its
\* _prev_jrdd is the segment's source, at most one PythonRDD is ever built
\* for it, and a job on it runs one PythonRDD per shuffle-free segment.
C4_OneSubmissionPerSegment ==
    \A n \in 1..Len(nodes) :
        (nodes[n].pipelined /\ NoCacheAbove(n)) =>
            /\ nodes[n].prev_jrdd = nodes[SegmentSource(n)].jrdd_val
            /\ nodes[n].builds <= 1
            /\ nodes[n].jrdd_val # 0 =>
                  /\ jrdds[nodes[n].jrdd_val].kind = "python"
                  /\ jrdds[nodes[n].jrdd_val].parent = nodes[SegmentSource(n)].jrdd_val
                  /\ PyCount(nodes[n].jrdd_val) = Shuffles(n) + 1

\* A chain of three transformations with an action run on the last node and
\* on the node before it.
C4_Witness ==
    \E n \in 1..Len(nodes) :
        /\ nodes[n].pipelined /\ NoCacheAbove(n)
        /\ Len(nodes[n].func) >= 3
        /\ nodes[n].jrdd_val # 0 /\ nodes[n].builds = 1
        /\ nodes[nodes[n].prev].jrdd_val # 0
        /\ PyCount(nodes[n].jrdd_val) = 1

\* C5: for every node marked cached, no other node's fused function holds the
\* cached node's transformation, and every node derived from it has the cached
\* node's own backend RDD as its upstream.
C5_CacheIsBoundary ==
    \A c \in 1..Len(nodes) : \A m \in 1..Len(nodes) :
        (nodes[c].is_cached /\ nodes[c].pipelined /\ m # c) =>
            /\ c \notin Range(nodes[m].func)
            /\ (nodes[m].pipelined /\ nodes[m].prev = c) =>
                   nodes[m].prev_jrdd = nodes[c].jrdd_val

\* The transformations of the chain that ends in node n: n and the
\* PipelinedRDDs above it.
Chain(n) == {a \in Ancestors(n) \cup {n} : nodes[a].pipelined}

\* Node n was made from the source dataset by transformation calls only: no
\* cache() and no shuffle above it.
OnlyTransformations(n) == NoCacheAbove(n) /\ Shuffles(n) = 0

\* C13: a node's preservesPartitioning is true only if every transformation
\* composed into its fused function was created with preservesPartitioning
\* asserted (asserted is the argument of the call that made the node); and a
\* chain of transformation calls that holds one call without the assertion
\* (a plain map or filter) ends in a node with the flag false.
C13_FlagOnlyIfAllAsserted ==
    \A n \in 1..Len(nodes) :
        /\ nodes[n].preservesPartitioning =>
               \A t \in Range(nodes[n].func) : nodes[t].asserted
        /\ (nodes[n].pipelined /\ OnlyTransformations(n)
              /\ \E t \in Chain(n) : ~nodes[t].asserted) =>
               ~nodes[n].preservesPartitioning

\* A chain of a plain call followed by an asserted one, with the flag false,
\* next to a node made by an asserted call, with the flag true.
C13_Witness ==
    /\ \E n \in 1..Len(nodes) :
          /\ nodes[n].pipelined /\ nodes[n].preservesPartitioning
    /\ \E n \in 1..Len(nodes) :
          /\ Len(nodes[n].func) >= 2
          /\ nodes[n].asserted
          /\ \E t \in Range(nodes[n].func) : ~nodes[t].asserted
          /\ ~nodes[n].preservesPartitioning

\* ================================================================ shuffle
VARIABLES
    srcParts,   \* the keyed dataset: a sequence of partitions of <<key, value>> pairs
    sop,        \* the operation running: "none", "partitionBy" or "combineByKey"
    numSplits,  \* the number of output partitions
    fns,        \* combineByKey's createCombiner, mergeValue and mergeCombiners
    spc,        \* the stage reached
    locally,    \* per source partition, what partitionBy is run on
    buckets,    \* per source partition, add_shuffle_key's buckets by destination
    shuffled,   \* per destination (index d + 1), the pairs partitionBy returns
    out         \* per destination (index d + 1), the pairs combineByKey returns

svars == <<srcParts, sop, numSplits, fns, spc, locally, buckets, shuffled, out>>

\* The largest number of records of a keyed dataset.
MaxRecs == 3
\* The largest number of partitions of a keyed dataset.
MaxSrcParts == 2
\* The largest numSplits.
MaxSplits == 2

\* The keys and the values of the records. With 2 output partitions the keys
\* go to different destinations (hash(-1) % 2 = 0, hash(1) % 2 = 1); with 1
\* or 3 they share one.
Keys == {-1, 1}
Vals == {0, 1}
Records == Keys \X Vals

\* The keyed datasets: a sequence of up to MaxRecs records cut into 1 to
\* MaxSrcParts partitions (some may be empty), as parallelize(c, numSlices)
\* does.
KeyedSeqs == UNION {[1..n -> Records] : n \in 0..MaxRecs}

Cuts(len, n) ==
    {c \in [0..n -> 0..len] :
        /\ c[0] = 0 /\ c[n] = len
        /\ \A i \in 1..n : c[i - 1] <= c[i]}

KeyedDatasets ==
    UNION {UNION {{[p \in 1..n |-> SubSeq(recs, c[p - 1] + 1, c[p])] : c \in Cuts(Len(recs), n)}
                  : n \in 1..MaxSrcParts}
           : recs \in KeyedSeqs}

\* hash(k) of a Python int: the int itself, but for hash(-1) = -2.
Hash(k) == IF k = -1 THEN -2 ELSE k

\* The functions a caller may pass, by name. createCombiner: "id" (lambda x:
\* x, as reduceByKey passes) and "one" (lambda x: 1). mergeValue and
\* mergeCombiners: "add", "max", "first" (lambda x, _: x, as distinct passes)
\* and "inc" (lambda c, _: c + 1).
ApplyCreate(f, v) == IF f = "id" THEN v ELSE 1

Apply(f, a, b) ==
    CASE f = "add"   -> a + b
      [] f = "max"   -> IF a >= b THEN a ELSE b
      [] f = "first" -> a
      [] f = "inc"   -> a + 1

\* The function triples tried: reduceByKey(add), reduceByKey(max),
\* reduceByKey(lambda x, _: x), a count of the records of each key, and a
\* triple whose mergeValue does not agree with its mergeCombiners.
FnTriples ==
    { [create |-> "id",  value |-> "add",   comb |-> "add"],
      [create |-> "id",  value |-> "max",   comb |-> "max"],
      [create |-> "id",  value |-> "first", comb |-> "first"],
      [create |-> "one", value |-> "inc",   comb |-> "add"],
      [create |-> "id",  value |-> "first", comb |-> "max"] }

NoFns == [create |-> "id", value |-> "first", comb |-> "first"]

\* The sequences that hold every element of the set S once.
Perms(S) ==
    LET n == Cardinality(S)
    IN  {f \in [1..n -> S] : \A i, j \in 1..n : i # j => f[i] # f[j]}

\* The orders in which iteritems() may give the items of a dict d (a function
\* from its keys): Python fixes none.
ItemOrders(d) == {[i \in 1..Len(o) |-> <<o[i], d[o[i]]>>] : o \in Perms(DOMAIN d)}

\* The sequences whose element i is drawn from the set choices[i].
RECURSIVE Products(_)
Products(choices) ==
    IF choices = <<>> THEN {<<>>}
    ELSE {<<x>> \o r : x \in Head(choices), r \in Products(Tail(choices))}

\* combineLocally's loop (lines 548-553) over the pairs of one partition.
RECURSIVE CombineLocally(_, _, _)
CombineLocally(combiners, part, t) ==
    IF part = <<>> THEN combiners
    ELSE LET k == Head(part)[1]
             v == Head(part)[2]
         IN  CombineLocally(
                 IF k \notin DOMAIN combiners
                 THEN Put(combiners, k, ApplyCreate(t.create, v))
                 ELSE Put(combiners, k, Apply(t.value, combiners[k], v)),
                 Tail(part), t)

\* _mergeCombiners' loop (lines 558-563) over the pairs of one output
\* partition.
RECURSIVE MergeCombinersKeepLast(_, _, _)
MergeCombinersKeepLast(combiners, part, t) ==
    IF part = <<>> THEN combiners
    ELSE MergeCombinersKeepLast(Put(combiners, Head(part)[1], Head(part)[2]),
                                Tail(part), t)

RECURSIVE MergeCombiners(_, _, _)
MergeCombiners(combiners, part, t) ==
    IF part = <<>> THEN combiners
    ELSE LET k == Head(part)[1]
             v == Head(part)[2]
         IN  MergeCombiners(
                 IF k \notin DOMAIN combiners
                 THEN Put(combiners, k, v)
                 ELSE Put(combiners, k, Apply(t.comb, combiners[k], v)),
                 Tail(part), t)

\* The bucket add_shuffle_key puts the pair pr in: hashFunc(k) % numSplits
\* (line 506). Python's % has the sign of numSplits, as TLA+'s has.
ShuffleDestOfValue(pr, n) == Hash(pr[2]) % n

ShuffleDest(pr, n) == Hash(pr[1]) % n

\* add_shuffle_key's loop (lines 504-506): buckets is a defaultdict(list).
RECURSIVE AddShuffleKeyOverwrite(_, _, _)
AddShuffleKeyOverwrite(bkts, part, n) ==
    IF part = <<>> THEN bkts
    ELSE AddShuffleKeyOverwrite(Put(bkts, Hash(Head(part)[1]) % n, <<Head(part)>>),
                                Tail(part), n)

RECURSIVE AddShuffleKey(_, _, _)
AddShuffleKey(bkts, part, n) ==
    IF part = <<>> THEN bkts
    ELSE LET d == ShuffleDest(Head(part), n)
         IN  AddShuffleKey(
                 Put(bkts, d, (IF d \in DOMAIN bkts THEN bkts[d] ELSE <<>>)
                              \o <<Head(part)>>),
                 Tail(part), n)

SIdle ==
    /\ srcParts = <<>>
    /\ sop = "none" /\ numSplits = 0 /\ fns = NoFns /\ spc = "idle"
    /\ locally = <<>> /\ buckets = <<>> /\ shuffled = <<>> /\ out = <<>>

SInit ==
    /\ srcParts \in KeyedDatasets
    /\ sop = "none" /\ numSplits = 0 /\ fns = NoFns /\ spc = "idle"
    /\ locally = <<>> /\ buckets = <<>> /\ shuffled = <<>> /\ out = <<>>

\* partitionBy(numSplits) on the dataset.
CallPartitionBy(n) ==
    /\ spc = "idle"
    /\ sop' = "partitionBy"
    /\ numSplits' = n
    /\ locally' = srcParts
    /\ spc' = "called"
    /\ UNCHANGED <<srcParts, fns, buckets, shuffled, out>>

\* combineByKey(createCombiner, mergeValue, mergeCombiners, numSplits) on the
\* dataset: locally_combined = self.mapPartitions(combineLocally), every
\* partition giving combiners.iteritems() in some order.
CallCombineByKey(t, n) ==
    /\ spc = "idle"
    /\ sop' = "combineByKey"
    /\ numSplits' = n
    /\ fns' = t
    /\ locally' \in Products([p \in 1..Len(srcParts) |->
                                ItemOrders(CombineLocally(EmptyDict, srcParts[p], t))])
    /\ spc' = "called"
    /\ UNCHANGED <<srcParts, buckets, shuffled, out>>

\* The map side of partitionBy: add_shuffle_key on every partition.
MapSide ==
    /\ spc = "called"
    /\ buckets' = [p \in 1..Len(locally) |-> AddShuffleKey(EmptyDict, locally[p], numSplits)]
    /\ spc' = "bucketed"
    /\ UNCHANGED <<srcParts, sop, numSplits, fns, locally, shuffled, out>>

\* The bucket of source partition p for destination d (empty when the
\* partition has none).
BucketOf(p, d) == IF d \in DOMAIN buckets[p] THEN buckets[p][d] ELSE <<>>

RECURSIVE Gather(_, _)
Gather(order, d) ==
    IF order = <<>> THEN <<>>
    ELSE BucketOf(Head(order), d) \o Gather(Tail(order), d)

\* The source partitions that hold a bucket for destination d.
SourcesFor(d) == {p \in 1..Len(buckets) : d \in DOMAIN buckets[p]}

\* The exchange, the backend's: PairwiseRDD, partitionBy(PythonPartitioner
\* (numSplits)) and ExtractValue hand every destination the buckets addressed
\* to it from every source partition, in an order the backend chooses for
\* each destination.
Exchange ==
    /\ spc = "bucketed"
    /\ shuffled' \in Products([i \in 1..numSplits |->
                                 {Gather(o, i - 1) : o \in Perms(SourcesFor(i - 1))}])
    /\ spc' = "exchanged"
    /\ UNCHANGED <<srcParts, sop, numSplits, fns, locally, buckets, out>>

\* The reduce side of combineByKey: shuffled.mapPartitions(_mergeCombiners),
\* every partition giving combiners.iteritems() in some order.
ReduceSide ==
    /\ spc = "exchanged"
    /\ sop = "combineByKey"
    /\ out' \in Products([i \in 1..numSplits |->
                            ItemOrders(MergeCombiners(EmptyDict, shuffled[i], fns))])
    /\ spc' = "merged"
    /\ UNCHANGED <<srcParts, sop, numSplits, fns, locally, buckets, shuffled>>

\* The keys of the pairs of a sequence.
KeysOf(prs) == {prs[i][1] : i \in 1..Len(prs)}

\* The combiners the functions can reach from the values.
CDomain == 0..MaxRecs

\* f is associative and commutative.
AssocComm(f) ==
    \A a \in CDomain, b \in CDomain, c \in CDomain :
        /\ Apply(f, a, b) = Apply(f, b, a)
        /\ Apply(f, Apply(f, a, b), c) = Apply(f, a, Apply(f, b, c))

\* mergeValue merges a value as mergeCombiners merges its combiner.
Agrees(t) ==
    \A c \in CDomain, v \in Vals :
        Apply(t.value, c, v) = Apply(t.comb, c, ApplyCreate(t.create, v))

\* The triples tried whose mergeCombiners is associative and commutative, and
\* those among them whose mergeValue agrees with it.
AssocCommTriples == {t \in FnTriples : AssocComm(t.comb)}

AgreeingTriples == {t \in AssocCommTriples : Agrees(t)}

\* C6: combineByKey returns exactly one pair for every key of the dataset, and
\* none for any other key, over all its output partitions.
C6_OnePairPerKey ==
    (sop = "combineByKey" /\ spc = "merged") =>
        LET o == Flatten(out)
        IN  \A k \in Keys :
                Cardinality({i \in 1..Len(o) : o[i][1] = k})
                    = IF k \in KeysOf(Flatten(srcParts)) THEN 1 ELSE 0

\* Two keys, one of them in both source partitions, combined into two output
\* partitions.
C6_Witness ==
    /\ sop = "combineByKey" /\ spc = "merged" /\ numSplits = 2
    /\ Len(srcParts) = 2
    /\ KeysOf(Flatten(srcParts)) = Keys
    /\ \E k \in Keys : k \in KeysOf(srcParts[1]) /\ k \in KeysOf(srcParts[2])
    /\ out[1] # <<>> /\ out[2] # <<>>

\* What combineByKey gives for the same records in one partition.
OnePartitionResult(t) ==
    LET d == CombineLocally(EmptyDict, Flatten(srcParts), t)
    IN  {<<k, d[k]>> : k \in DOMAIN d}

\* C7 as the spec states it: with an associative and commutative
\* mergeCombiners, the set of pairs combineByKey returns does not depend on
\* the number of source partitions nor on numSplits (it is the set the same
\* records give in one partition).
C7_IndependentOfPartitions ==
    (sop = "combineByKey" /\ spc = "merged" /\ fns \in AssocCommTriples) =>
        Range(Flatten(out)) = OnePartitionResult(fns)

\* C7, amended: the same, for the functions whose mergeValue agrees with
\* mergeCombiners: mergeValue(c, v) = mergeCombiners(c, createCombiner(v)).
C7_IndependentWhenMergeValueAgrees ==
    (sop = "combineByKey" /\ spc = "merged" /\ fns \in AgreeingTriples) =>
        Range(Flatten(out)) = OnePartitionResult(fns)

\* A key with records in two source partitions, two of them in one partition,
\* summed into two output partitions.
C7_Witness ==
    /\ sop = "combineByKey" /\ spc = "merged" /\ numSplits = 2
    /\ fns.comb = "add" /\ fns.value = "add"
    /\ Len(srcParts) = 2
    /\ \E k \in Keys :
          /\ k \in KeysOf(srcParts[1]) /\ k \in KeysOf(srcParts[2])
          /\ Len(Flatten(srcParts)) = 3 /\ KeysOf(Flatten(srcParts)) = {k}
          /\ <<k, 2>> \in Range(Flatten(out))

\* The pairs of a sequence that belong in bucket d.
RECURSIVE PairsFor(_, _, _)
PairsFor(prs, d, n) ==
    IF prs = <<>> THEN <<>>
    ELSE (IF Hash(Head(prs)[1]) % n = d THEN <<Head(prs)>> ELSE <<>>)
         \o PairsFor(Tail(prs), d, n)

\* C8: partitionBy puts every pair (k, v) of every source partition in the
\* bucket addressed to hash(k) mod numSplits, and nowhere else; so the pairs of
\* one key end up in one output partition, the one hash(k) mod numSplits
\* names, and two output partitions share no key.
C8_PartitionByCoLocates ==
    /\ spc \in {"bucketed", "exchanged", "merged"} =>
          \A p \in 1..Len(locally) :
              /\ \A d \in DOMAIN buckets[p] :
                    d \in 0..(numSplits - 1) /\ buckets[p][d] # <<>>
              /\ \A d \in 0..(numSplits - 1) :
                    BucketOf(p, d) = PairsFor(locally[p], d, numSplits)
    /\ spc \in {"exchanged", "merged"} =>
          /\ \A i \in 1..numSplits : \A k \in KeysOf(shuffled[i]) :
                Hash(k) % numSplits = i - 1
          /\ \A i \in 1..numSplits : \A j \in 1..numSplits :
                i # j => KeysOf(shuffled[i]) \cap KeysOf(shuffled[j]) = {}
          /\ SumLen(shuffled) = SumLen(locally)

\* partitionBy(2) of a dataset with one key in both source partitions, twice
\* in one of them.
C8_Witness ==
    /\ sop = "partitionBy" /\ spc = "exchanged" /\ numSplits = 2
    /\ Len(srcParts) = 2
    /\ \E k \in Keys :
          /\ k \in KeysOf(srcParts[1]) /\ k \in KeysOf(srcParts[2])
          /\ \E p \in 1..2 : Len(PairsFor(srcParts[p], Hash(k) % 2, 2)) = 2
          /\ Len(shuffled[(Hash(k) % 2) + 1]) = 3

\* ================================================================= reduce
VARIABLES
    rparts,    \* the dataset: a sequence of partitions of numbers
    rf,        \* reduce's argument f, by name
    rpc,       \* the position of the call
    ran,       \* the partitions whose task has run
    outputs,   \* per partition, what func yielded
    vals,      \* what mapPartitions(func).collect() returned
    rresult,   \* the value reduce returned
    rerror     \* the exception reduce ended with ("none": none)

rvars == <<rparts, rf, rpc, ran, outputs, vals, rresult, rerror>>

\* Python's None, which func (line 251) starts acc with; no element is None.
PyNone == -1

\* The elements of the datasets reduced.
RElems == {1, 2, 3}

\* The datasets: a sequence of up to MaxRecs elements cut into 1 to MaxParts
\* partitions (some may be empty).
RDatasets ==
    UNION {UNION {{[p \in 1..n |-> SubSeq(es, c[p - 1] + 1, c[p])] : c \in Cuts(Len(es), n)}
                  : n \in 1..MaxParts}
           : es \in UNION {[1..n -> RElems] : n \in 0..MaxRecs}}

\* The operators passed to reduce: "add", "max" and "first" (lambda a, b: a).
ReduceFns == {"add", "max", "first"}

\* func's loop (lines 251-256) over the elements of one partition, from acc.
RECURSIVE FuncLoop(_, _, _)
FuncLoop(acc, part, f) ==
    IF part = <<>> THEN acc
    ELSE FuncLoop(IF acc = PyNone THEN Head(part) ELSE Apply(f, Head(part), acc),
                  Tail(part), f)

\* func(iterator) (lines 250-258): what it yields for one partition.
ReduceFuncAlwaysYield(part, f) == <<FuncLoop(PyNone, part, f)>>

ReduceFunc(part, f) ==
    LET acc == FuncLoop(PyNone, part, f)
    IN  IF acc # PyNone THEN <<acc>> ELSE <<>>

\* Python's reduce(f, vs) for a vs that is not empty: f folded from the left.
RECURSIVE PyReduceFrom(_, _, _)
PyReduceFrom(acc, vs, f) ==
    IF vs = <<>> THEN acc ELSE PyReduceFrom(Apply(f, acc, Head(vs)), Tail(vs), f)

RIdle ==
    /\ rparts = <<>>
    /\ rf = "none" /\ rpc = "idle" /\ ran = {} /\ outputs = <<>> /\ vals = <<>>
    /\ rresult = PyNone /\ rerror = "none"

RInit ==
    /\ rparts \in RDatasets
    /\ rf = "none" /\ rpc = "idle" /\ ran = {} /\ outputs = <<>> /\ vals = <<>>
    /\ rresult = PyNone /\ rerror = "none"

\* reduce(f): self.mapPartitions(func) and the start of its collect().
Reduce(f) ==
    /\ rpc = "idle"
    /\ rf' = f
    /\ ran' = {}
    /\ outputs' = [p \in 1..Len(rparts) |-> <<>>]
    /\ rpc' = "running"
    /\ UNCHANGED <<rparts, vals, rresult, rerror>>

\* The task of partition p runs func on its elements; the tasks of the
\* partitions run in any order.
RunTask(p) ==
    /\ rpc = "running"
    /\ p \notin ran
    /\ ran' = ran \cup {p}
    /\ outputs' = [outputs EXCEPT ![p] = ReduceFunc(rparts[p], rf)]
    /\ UNCHANGED <<rparts, rf, rpc, vals, rresult, rerror>>

\* collect() returns what the tasks yielded, in partition-index order (the
\* staging file it goes through is the collector's).
CollectVals ==
    /\ rpc = "running"
    /\ ran = 1..Len(rparts)
    /\ vals' = Flatten(outputs)
    /\ rpc' = "collected"
    /\ UNCHANGED <<rparts, rf, ran, outputs, rresult, rerror>>

\* return reduce(f, vals) (line 260): Python's reduce raises TypeError on an
\* empty sequence with no initial value.
FinalReduce ==
    /\ rpc = "collected"
    /\ IF vals = <<>>
       THEN /\ rpc' = "raised"
            /\ rerror' = "TypeError"
            /\ UNCHANGED rresult
       ELSE /\ rpc' = "returned"
            /\ rresult' = PyReduceFrom(Head(vals), Tail(vals), rf)
            /\ UNCHANGED rerror
    /\ UNCHANGED <<rparts, rf, ran, outputs, vals>>

\* The partitions of a dataset that hold an element.
RECURSIVE NonEmptyParts(_)
NonEmptyParts(ps) ==
    IF ps = <<>> THEN <<>>
    ELSE (IF Head(ps) = <<>> THEN <<>> ELSE <<Head(ps)>>) \o NonEmptyParts(Tail(ps))

\* C9: reduce over a dataset with no element, whatever its partitions, ends
\* with an error (TypeError) and returns nothing; and an empty partition gives
\* no value to the reduction: what is collected is one value for every
\* partition that holds an element, those partitions' in their order.
C9_EmptyReduceIsAnError ==
    /\ (rpc \in {"returned", "raised"} /\ SumLen(rparts) = 0) =>
          (rpc = "raised" /\ rerror = "TypeError" /\ rresult = PyNone)
    /\ (rpc \in {"returned", "raised"} /\ SumLen(rparts) > 0) =>
          (rpc = "returned" /\ rerror = "none" /\ rresult # PyNone)
    /\ rpc \in {"collected", "returned", "raised"} =>
          /\ \A p \in 1..Len(rparts) : rparts[p] = <<>> => outputs[p] = <<>>
          /\ LET ne == NonEmptyParts(rparts)
             IN  vals = [i \in 1..Len(ne) |-> FuncLoop(Head(ne[i]), Tail(ne[i]), rf)]

\* A reduce of two or more partitions, all empty, that raised.
C9_Witness ==
    /\ rpc = "raised" /\ rerror = "TypeError"
    /\ Len(rparts) >= 2 /\ SumLen(rparts) = 0

\* The operators of ReduceFns that are associative on the values a reduction
\* of up to MaxRecs elements can meet.
AssociativeFns ==
    LET D == 1..(3 * MaxRecs)
    IN  {f \in ReduceFns :
            \A a \in D, b \in D, c \in D :
                Apply(f, Apply(f, a, b), c) = Apply(f, a, Apply(f, b, c))}

\* f folded from the left over the elements es (not empty).
LeftFold(es, f) == PyReduceFrom(Head(es), Tail(es), f)

\* C14: for every associative f, commutative or not, and every dataset that
\* is not empty, reduce(f) returns f folded from the left over the elements
\* in collect() order, whatever their split into partitions.
C14_ReduceIsLeftFold ==
    (rpc = "returned" /\ rf \in AssociativeFns /\ SumLen(rparts) > 0) =>
        rresult = LeftFold(Flatten(rparts), rf)

\* ============================================================== cartesian
VARIABLES
    selfObjs,        \* what self._jrdd holds: A's elements as transport objects
    otherObjs,       \* what other._jrdd holds: B's elements as transport objects
    kpc,             \* the position of the call
    java_cartesian,  \* the backend's cartesian: pairs of transport objects
    kpos,            \* the pairs that flatMap(unpack_batches) has consumed
    kout             \* what flatMap(unpack_batches) has produced

kvars == <<selfObjs, otherObjs, kpc, java_cartesian, kpos, kout>>

\* The largest number of elements of A and of B.
MaxCartElems == 2

\* The elements of A and of B.
CartElems == {1, 2}

\* A transport object is one element or a Batch of elements (Batch.items).
Elem(e) == [type |-> "element", val |-> e, items |-> <<>>]

Batch(es) == [type |-> "Batch", val |-> 0, items |-> es]

\* The ways the elements es travel: every element alone or in a Batch with
\* its neighbours, a Batch holding one element or more.
RECURSIVE Groupings(_)
Groupings(es) ==
    IF es = <<>> THEN {<<>>}
    ELSE {<<Elem(Head(es))>> \o r : r \in Groupings(Tail(es))}
         \cup UNION {{<<Batch(SubSeq(es, 1, k))>> \o r :
                         r \in Groupings(SubSeq(es, k + 1, Len(es)))}
                     : k \in 1..Len(es)}

\* The elements that the transport objects objs carry, in order.
RECURSIVE Unbatched(_)
Unbatched(objs) ==
    IF objs = <<>> THEN <<>>
    ELSE (IF Head(objs).type = "Batch" THEN Head(objs).items
          ELSE <<Head(objs).val>>) \o Unbatched(Tail(objs))

\* The datasets a side can be: up to MaxCartElems elements in any grouping.
CartSides ==
    UNION {Groupings(es) : es \in UNION {[1..n -> CartElems] : n \in 0..MaxCartElems}}

KIdle ==
    /\ selfObjs = <<>> /\ otherObjs = <<>>
    /\ kpc = "idle" /\ java_cartesian = <<>> /\ kpos = 0 /\ kout = <<>>

KInit ==
    /\ selfObjs \in CartSides
    /\ otherObjs \in CartSides
    /\ kpc = "idle" /\ java_cartesian = <<>> /\ kpos = 0 /\ kout = <<>>

\* The backend's cartesian of two backend RDDs: every object of the first
\* with every object of the second, the first's order outermost.
JavaCartesian(xs, ys) ==
    [i \in 1..(Len(xs) * Len(ys)) |->
        <<xs[((i - 1) \div Len(ys)) + 1], ys[((i - 1) % Len(ys)) + 1]>>]

\* itertools.product(xs, ys): every x with every y, xs outermost.
Product(xs, ys) ==
    [i \in 1..(Len(xs) * Len(ys)) |->
        <<xs[((i - 1) \div Len(ys)) + 1], ys[((i - 1) % Len(ys)) + 1]>>]

\* x.items if type(x) == Batch else [x]
ItemsOf(x) ==
    IF x.type = "Batch" THEN [i \in 1..Len(x.items) |-> Elem(x.items[i])]
    ELSE <<x>>

\* unpack_batches unpacking only when both components are batches.
UnpackBatchesBoth(pair) ==
    IF pair[1].type = "Batch" /\ pair[2].type = "Batch"
    THEN Product(ItemsOf(pair[1]), ItemsOf(pair[2]))
    ELSE <<pair>>

\* unpack_batches(pair) (lines 167-175): what it yields.
UnpackBatches(pair) ==
    IF pair[1].type = "Batch" \/ pair[2].type = "Batch"
    THEN Product(ItemsOf(pair[1]), ItemsOf(pair[2]))
    ELSE <<pair>>

\* cartesian(other): java_cartesian = RDD(self._jrdd.cartesian(other._jrdd))
\* and the flatMap over it.
Cartesian ==
    /\ kpc = "idle"
    /\ java_cartesian' = JavaCartesian(selfObjs, otherObjs)
    /\ kpos' = 0
    /\ kout' = <<>>
    /\ kpc' = "unpacking"
    /\ UNCHANGED <<selfObjs, otherObjs>>

\* flatMap(unpack_batches) takes the next pair of java_cartesian and chains
\* what unpack_batches yields for it.
UnpackNext ==
    /\ kpc = "unpacking"
    /\ kpos < Len(java_cartesian)
    /\ kpos' = kpos + 1
    /\ kout' = kout \o UnpackBatches(java_cartesian[kpos + 1])
    /\ UNCHANGED <<selfObjs, otherObjs, kpc, java_cartesian>>

\* java_cartesian is exhausted: the result is complete.
UnpackEnd ==
    /\ kpc = "unpacking"
    /\ kpos = Len(java_cartesian)
    /\ kpc' = "done"
    /\ UNCHANGED <<selfObjs, otherObjs, java_cartesian, kpos, kout>>

\* The number of places of the sequence s that hold x.
Count(s, x) == Cardinality({i \in 1..Len(s) : s[i] = x})

\* C11: for every grouping of A's and of B's elements into batches, also none
\* on either side, no pair produced has a Batch as a component, and once the
\* result is complete every pair <<a, b>> is in it as many times as a is in A
\* times b is in B.
C11_CartesianOverElements ==
    /\ \A i \in 1..Len(kout) :
          kout[i][1].type = "element" /\ kout[i][2].type = "element"
    /\ kpc = "done" =>
          /\ Len(kout) = Len(Unbatched(selfObjs)) * Len(Unbatched(otherObjs))
          /\ \A a \in CartElems, b \in CartElems :
                Count(kout, <<Elem(a), Elem(b)>>)
                    = Count(Unbatched(selfObjs), a) * Count(Unbatched(otherObjs), b)

\* A complete product of a side that is one Batch of two elements with a side
\* that holds an element alone and a Batch.
C11_Witness ==
    /\ kpc = "done"
    /\ \E i \in 1..Len(selfObjs) : selfObjs[i].type = "Batch" /\ Len(selfObjs[i].items) = 2
    /\ \E i \in 1..Len(otherObjs) : otherObjs[i].type = "element"
    /\ \E i \in 1..Len(otherObjs) : otherObjs[i].type = "Batch"
    /\ Len(kout) = 4

\* =================================================================== pipe
VARIABLES
    iterElems,     \* the partition's elements, which func's iterator gives
    fed,           \* the elements pipe_objs has written
    wpc,           \* the feeder thread: "idle", "writing" or "closed"
    stdinBuf,      \* the lines in the pipe to the process's input
    stdinClosed,   \* out.close() was called
    xpc,           \* the external process: "none", "running" or "exited"
    pending,       \* the lines the process has still to write for what it read
    stdoutBuf,     \* the lines in the pipe from the process's output
    stdoutClosed,  \* the process closed its output
    produced,      \* every line the process wrote, in order
    mpc,           \* the main path: "idle", "reading" or "eof"
    got            \* the lines the main path has read

pvars == <<iterElems, fed, wpc, stdinBuf, stdinClosed, xpc, pending,
           stdoutBuf, stdoutClosed, produced, mpc, got>>

\* The largest number of elements of the partition.
MaxPipeElems == 3

\* The lines the pipe to the process's input holds before a write blocks.
StdinCap == 1

\* The lines the pipe from the process's output holds before a write blocks.
StdoutCap == 1

\* The largest number of lines the process writes for a line it read.
MaxOutPerLine == 2

\* The elements piped.
PipeElems == {1, 2}

PIdle ==
    /\ iterElems = <<>> /\ fed = 0 /\ wpc = "idle"
    /\ stdinBuf = <<>> /\ stdinClosed = FALSE
    /\ xpc = "none" /\ pending = <<>>
    /\ stdoutBuf = <<>> /\ stdoutClosed = FALSE /\ produced = <<>>
    /\ mpc = "idle" /\ got = <<>>

PInit ==
    /\ iterElems \in UNION {[1..n -> PipeElems] : n \in 0..MaxPipeElems}
    /\ fed = 0 /\ wpc = "idle"
    /\ stdinBuf = <<>> /\ stdinClosed = FALSE
    /\ xpc = "none" /\ pending = <<>>
    /\ stdoutBuf = <<>> /\ stdoutClosed = FALSE /\ produced = <<>>
    /\ mpc = "idle" /\ got = <<>>

\* func(iterator) (lines 196-203): Popen forks the process, the thread that
\* runs pipe_objs is started, and the generator over pipe.stdout is returned
\* to the main path, which reads from it.
Func ==
    /\ mpc = "idle"
    /\ xpc' = "running"
    /\ wpc' = "writing"
    /\ mpc' = "reading"
    /\ UNCHANGED <<iterElems, fed, stdinBuf, stdinClosed, pending,
                   stdoutBuf, stdoutClosed, produced, got>>

\* pipe_objs: out.write(str(obj).rstrip('\n') + '\n') for the next element;
\* the write blocks while the pipe is full.
PipeObjsWrite ==
    /\ wpc = "writing"
    /\ fed < Len(iterElems)
    /\ Len(stdinBuf) < StdinCap
    /\ stdinBuf' = Append(stdinBuf, iterElems[fed + 1])
    /\ fed' = fed + 1
    /\ UNCHANGED <<iterElems, wpc, stdinClosed, xpc, pending,
                   stdoutBuf, stdoutClosed, produced, mpc, got>>

\* pipe_objs: out.close() after the last element.
PipeObjsClose ==
    /\ wpc = "writing"
    /\ fed = Len(iterElems)
    /\ stdinClosed' = TRUE
    /\ wpc' = "closed"
    /\ UNCHANGED <<iterElems, fed, stdinBuf, xpc, pending,
                   stdoutBuf, stdoutClosed, produced, mpc, got>>

\* The external process, a line filter: it reads a line of its input and has
\* k lines to write for it, which it writes before it reads again.
ProcRead(k) ==
    /\ xpc = "running"
    /\ pending = <<>>
    /\ stdinBuf # <<>>
    /\ pending' = [i \in 1..k |-> Head(stdinBuf)]
    /\ stdinBuf' = Tail(stdinBuf)
    /\ UNCHANGED <<iterElems, fed, wpc, stdinClosed, xpc,
                   stdoutBuf, stdoutClosed, produced, mpc, got>>

\* The external process writes a line; the write blocks while the pipe is
\* full.
ProcWrite ==
    /\ xpc = "running"
    /\ pending # <<>>
    /\ Len(stdoutBuf) < StdoutCap
    /\ stdoutBuf' = Append(stdoutBuf, Head(pending))
    /\ produced' = Append(produced, Head(pending))
    /\ pending' = Tail(pending)
    /\ UNCHANGED <<iterElems, fed, wpc, stdinBuf, stdinClosed, xpc,
                   stdoutClosed, mpc, got>>

\* The external process meets the end of its input and exits, which closes
\* its output.
ProcExit ==
    /\ xpc = "running"
    /\ pending = <<>>
    /\ stdinBuf = <<>> /\ stdinClosed
    /\ xpc' = "exited"
    /\ stdoutClosed' = TRUE
    /\ UNCHANGED <<iterElems, fed, wpc, stdinBuf, stdinClosed, pending,
                   stdoutBuf, produced, mpc, got>>

\* The main path reading only once the feeder has closed the input: pipe_objs
\* called in the main path, with no thread.
MainReadsAfterFeeder(m, w) == m = "reading" /\ w = "closed"

\* The main path reads pipe.stdout whatever the feeder does: Thread.start()
\* (line 202) returns at once and pipe_objs runs in its own thread.
MainReads(m, w) == m = "reading"

\* The generator (line 203) takes the next line of pipe.stdout.
ReadLine ==
    /\ MainReads(mpc, wpc)
    /\ stdoutBuf # <<>>
    /\ got' = Append(got, Head(stdoutBuf))
    /\ stdoutBuf' = Tail(stdoutBuf)
    /\ UNCHANGED <<iterElems, fed, wpc, stdinBuf, stdinClosed, xpc, pending,
                   stdoutClosed, produced, mpc>>

\* The generator meets the end of pipe.stdout.
ReadEof ==
    /\ MainReads(mpc, wpc)
    /\ stdoutBuf = <<>> /\ stdoutClosed
    /\ mpc' = "eof"
    /\ UNCHANGED <<iterElems, fed, wpc, stdinBuf, stdinClosed, xpc, pending,
                   stdoutBuf, stdoutClosed, produced, got>>

PNext ==
    \/ Func
    \/ PipeObjsWrite
    \/ PipeObjsClose
    \/ \E k \in 0..MaxOutPerLine : ProcRead(k)
    \/ ProcWrite
    \/ ProcExit
    \/ ReadLine
    \/ ReadEof

\* The feeder wrote every element and closed the input, and the main path
\* read every line the process wrote and met the end of the output.
PipeDone ==
    /\ wpc = "closed" /\ stdinClosed /\ fed = Len(iterElems)
    /\ mpc = "eof" /\ got = produced
    /\ xpc = "exited" /\ stdinBuf = <<>> /\ stdoutBuf = <<>>

CIdle ==
    /\ parts = <<>>
    /\ op = "none" /\ num = 0 /\ pc = "idle" /\ partition = 0
    /\ items = <<>> /\ iterator = <<>> /\ content = <<>> /\ readPos = 0
    /\ curFile = 0 /\ created = {} /\ existing = {} /\ atexitReg = {}
    /\ result = <<>> /\ error = "none" /\ scanned = <<>>

FIdle == nodes = <<>> /\ jrdds = <<>>

vars == <<cvars, fvars, svars, rvars, kvars, pvars>>

InitCollect == CInit /\ FIdle /\ SIdle /\ RIdle /\ KIdle /\ PIdle

NextCollect ==
    \/ Collect /\ UNCHANGED <<fvars, svars, rvars, kvars, pvars>>
    \/ \E n \in 0..MaxNum : Take(n) /\ UNCHANGED <<fvars, svars, rvars, kvars, pvars>>
    \/ CreateTempFile /\ UNCHANGED <<fvars, svars, rvars, kvars, pvars>>
    \/ RegisterCleanUp /\ UNCHANGED <<fvars, svars, rvars, kvars, pvars>>
    \/ WriteFile /\ UNCHANGED <<fvars, svars, rvars, kvars, pvars>>
    \/ ReadItem /\ UNCHANGED <<fvars, svars, rvars, kvars, pvars>>
    \/ ReadEnd /\ UNCHANGED <<fvars, svars, rvars, kvars, pvars>>
    \/ Unlink /\ UNCHANGED <<fvars, svars, rvars, kvars, pvars>>
    \/ ProcessExit /\ UNCHANGED <<fvars, svars, rvars, kvars, pvars>>

SpecCollect == InitCollect /\ [][NextCollect]_vars

InitFusion == FInit /\ CIdle /\ SIdle /\ RIdle /\ KIdle /\ PIdle

NextFusion ==
    \/ \E n \in 1..Len(nodes), pp \in BOOLEAN : Map(n, pp) /\ UNCHANGED <<cvars, svars, rvars, kvars, pvars>>
    \/ \E n \in 1..Len(nodes), pp \in BOOLEAN : FlatMap(n, pp) /\ UNCHANGED <<cvars, svars, rvars, kvars, pvars>>
    \/ \E n \in 1..Len(nodes), pp \in BOOLEAN : MapPartitions(n, pp) /\ UNCHANGED <<cvars, svars, rvars, kvars, pvars>>
    \/ \E n \in 1..Len(nodes) : Filter(n) /\ UNCHANGED <<cvars, svars, rvars, kvars, pvars>>
    \/ \E n \in 1..Len(nodes) : MapValues(n) /\ UNCHANGED <<cvars, svars, rvars, kvars, pvars>>
    \/ \E n \in 1..Len(nodes) : FlatMapValues(n) /\ UNCHANGED <<cvars, svars, rvars, kvars, pvars>>
    \/ \E n \in 1..Len(nodes) : Cache(n) /\ UNCHANGED <<cvars, svars, rvars, kvars, pvars>>
    \/ \E n \in 1..Len(nodes) : RunAction(n) /\ UNCHANGED <<cvars, svars, rvars, kvars, pvars>>
    \/ \E n \in 1..Len(nodes) : PartitionByNode(n) /\ UNCHANGED <<cvars, svars, rvars, kvars, pvars>>

SpecFusion == InitFusion /\ [][NextFusion]_vars

InitShuffle == SInit /\ CIdle /\ FIdle /\ RIdle /\ KIdle /\ PIdle

NextShuffle ==
    \/ \E n \in 1..MaxSplits : CallPartitionBy(n) /\ UNCHANGED <<cvars, fvars, rvars, kvars, pvars>>
    \/ \E t \in FnTriples, n \in 1..MaxSplits :
          CallCombineByKey(t, n) /\ UNCHANGED <<cvars, fvars, rvars, kvars, pvars>>
    \/ MapSide /\ UNCHANGED <<cvars, fvars, rvars, kvars, pvars>>
    \/ Exchange /\ UNCHANGED <<cvars, fvars, rvars, kvars, pvars>>
    \/ ReduceSide /\ UNCHANGED <<cvars, fvars, rvars, kvars, pvars>>

SpecShuffle == InitShuffle /\ [][NextShuffle]_vars

InitReduce == RInit /\ CIdle /\ FIdle /\ SIdle /\ KIdle /\ PIdle

NextReduce ==
    \/ \E f \in ReduceFns : Reduce(f) /\ UNCHANGED <<cvars, fvars, svars, kvars, pvars>>
    \/ \E p \in 1..Len(rparts) : RunTask(p) /\ UNCHANGED <<cvars, fvars, svars, kvars, pvars>>
    \/ CollectVals /\ UNCHANGED <<cvars, fvars, svars, kvars, pvars>>
    \/ FinalReduce /\ UNCHANGED <<cvars, fvars, svars, kvars, pvars>>

SpecReduce == InitReduce /\ [][NextReduce]_vars
InitCartesian == KInit /\ CIdle /\ FIdle /\ SIdle /\ RIdle /\ PIdle

NextCartesian ==
    \/ Cartesian /\ UNCHANGED <<cvars, fvars, svars, rvars, pvars>>
    \/ UnpackNext /\ UNCHANGED <<cvars, fvars, svars, rvars, pvars>>
    \/ UnpackEnd /\ UNCHANGED <<cvars, fvars, svars, rvars, pvars>>

SpecCartesian == InitCartesian /\ [][NextCartesian]_vars
InitPipe == PInit /\ CIdle /\ FIdle /\ SIdle /\ RIdle /\ KIdle

NextPipe ==
    \/ Func /\ UNCHANGED <<cvars, fvars, svars, rvars, kvars>>
    \/ PipeObjsWrite /\ UNCHANGED <<cvars, fvars, svars, rvars, kvars>>
    \/ PipeObjsClose /\ UNCHANGED <<cvars, fvars, svars, rvars, kvars>>
    \/ \E k \in 0..MaxOutPerLine : ProcRead(k) /\ UNCHANGED <<cvars, fvars, svars, rvars, kvars>>
    \/ ProcWrite /\ UNCHANGED <<cvars, fvars, svars, rvars, kvars>>
    \/ ProcExit /\ UNCHANGED <<cvars, fvars, svars, rvars, kvars>>
    \/ ReadLine /\ UNCHANGED <<cvars, fvars, svars, rvars, kvars>>
    \/ ReadEof /\ UNCHANGED <<cvars, fvars, svars, rvars, kvars>>

\* The threads and the process are scheduled again and again, and the main
\* path keeps reading.
SpecPipe ==
    /\ InitPipe /\ [][NextPipe]_vars
    /\ WF_vars(Func /\ UNCHANGED <<cvars, fvars, svars, rvars, kvars>>)
    /\ WF_vars(PipeObjsWrite /\ UNCHANGED <<cvars, fvars, svars, rvars, kvars>>)
    /\ WF_vars(PipeObjsClose /\ UNCHANGED <<cvars, fvars, svars, rvars, kvars>>)
    /\ WF_vars(\E k \in 0..MaxOutPerLine : ProcRead(k) /\ UNCHANGED <<cvars, fvars, svars, rvars, kvars>>)
    /\ WF_vars(ProcWrite /\ UNCHANGED <<cvars, fvars, svars, rvars, kvars>>)
    /\ WF_vars(ProcExit /\ UNCHANGED <<cvars, fvars, svars, rvars, kvars>>)
    /\ WF_vars(ReadLine /\ UNCHANGED <<cvars, fvars, svars, rvars, kvars>>)
    /\ WF_vars(ReadEof /\ UNCHANGED <<cvars, fvars, svars, rvars, kvars>>)
====
